---- MODULE Spec2Model ----
(***************************************************************************)
(* FermPi fermentation controller (fermpi.py): the supervisor loop of      *)
(* main(), the signal handler on_exit(), and the controller threads        *)
(* IdleMode, ConstantMode and GradualMode.                                 *)
(*                                                                         *)
(* Temperatures are integers in tenths of a degree Celsius (20.0 C = 200), *)
(* times are integers in seconds.  The comparison semantics of the         *)
(* database values are those of Python 2, the interpreter the script is    *)
(* written for (MySQLdb, "with conn as cur"): None compares below every    *)
(* number.                                                                 *)
(***************************************************************************)
EXTENDS Integers, Sequences, FiniteSets, Bags, TLC

(* ---------------- program constants ---------------- *)
HEATER_GPIO == 21
FPI_STATE_OFF == 0
FPI_STATE_ON == 1
FPI_MODE_IDLE == 0
FPI_MODE_CONSTANT == 1
FPI_MODE_GRADUAL == 2
IDLE == 0
HEATING == 1
WAITING_FOR_PEAK == 2
WAITING_FOR_TROUGH == 3
HEATER_ON == 1
HEATER_OFF == 0
\* GPIO levels; the relay is low-active
LOW == "LOW"
HIGH == "HIGH"
\* a database NULL / Python None (never a stored temperature or duration)
None == -1
\* fixed re-heat band below the target, 0.10 C
Band == 1
\* the two settle delays, seconds
SettleClimb == 20
SettlePulse == 10
\* divisor of the elapsed seconds in the duration check
SecsPerMinute == 60
\* pin handed to IdleMode(0, 0)
IdleGpio == 0
\* fermentation id handed to IdleMode(0, 0)
IdleId == 0
\* sensor stride of the loops over self._sensors
SensorStride == 4
\* first level column of a fermentations row, and the column limit of the scan
FirstLevelCol == 2
LevelColLimit == 11

(* ---------------- bounds of the model ---------------- *)
\* threads the supervisor may create in one run
MaxTasks == 2
\* last clock value (seconds); a timed wait that would pass it does not elapse
MaxClock == 220
\* enumerated temperature sensors
NumSensors == 2

(* ---------------- inputs ---------------- *)
\* the clock when the process starts
StartClock == 100
\* readings a sensor can deliver
Temps == {180, 185, 196, 199, 200}
\* config items 'cycle' and 'overshoot' (not changed while the process runs)
CycleSecs == 60
Overshoot == 5
\* (mode, log) pairs the operator has stored in table config before the
\* process starts (mode 3: unknown)
Presets == {<<0, 0>>, <<1, 1>>, <<1, 2>>, <<2, 2>>, <<2, 3>>, <<3, 0>>}
\* a value of config item 'state' that is neither ON nor OFF
UnknownState == 2
\* values of config item 'state' the operator UI stores
ConfigStates == {FPI_STATE_OFF, FPI_STATE_ON, UnknownState}
\* table config when the process starts
ConfigValues ==
    {[state |-> st, mode |-> p[1], log |-> p[2]] : st \in ConfigStates, p \in Presets}

\* a row of table fermentations: (id, name, t1, d1, ..., t5, d5), 0-based
MkRow(id, t1, d1, t2, d2) ==
    [c \in 0..11 |-> CASE c = 0 -> id
                       [] c = 1 -> "name"
                       [] c = 2 -> t1
                       [] c = 3 -> d1
                       [] c = 4 -> t2
                       [] c = 5 -> d2
                       [] OTHER -> None]

\* table fermentations: SELECT * FROM fermentations WHERE id = ...
\*   1: hold 20.0 C, no duration;  2: 19.6 C for 1 min, then 20.0 C for 1 min;
\*   3: no target stored, duration 1 min
Fermentations(id) ==
    CASE id = 1 -> MkRow(1, 200, None, None, None)
      [] id = 2 -> MkRow(2, 196, 1, 200, 1)
      [] id = 3 -> MkRow(3, None, 1, None, None)

\* 'row is not None' after fetchone()
HasRow(id) == id \in {1, 2, 3}

TaskIds == 1..MaxTasks

VARIABLES
    gpio,      \* level of each output pin
    config,    \* table config: items state, mode, log
    logs,      \* table logs: a bag of rows (fermentation, sensor, timestamp)
    clock,     \* wall clock, seconds
    thread,    \* global 'thread' of main: 0 (None) or a task id
    tasks,     \* the thread objects
    created,   \* number of thread objects created so far
    mpc        \* position of the main thread (in main or in on_exit)

vars == <<gpio, config, logs, clock, thread, tasks, created, mpc>>

RelayOn == gpio[HEATER_GPIO] = LOW

(* ---------------- thread objects ---------------- *)
NoTask ==
    [pc |-> "none", cls |-> "none", gpio |-> 0, heater |-> HEATER_OFF, id |-> 0,
     target |-> 0, duration |-> 0, cycle |-> 10, overshoot |-> 0,
     sensors |-> <<>>, state |-> IDLE, timestamp |-> 0, event |-> FALSE, ts |-> 0,
     fed |-> 0]

\* FermentationThread.__init__
BaseInit(id, pin) ==
    [NoTask EXCEPT !.pc = "created", !.gpio = pin, !.id = id,
                   !.sensors = [k \in 1..NumSensors |-> [sid |-> k, cur |-> 0, prev |-> 0]]]

\* IdleMode.__init__
IdleInit(id, pin) == [BaseInit(id, pin) EXCEPT !.cls = "idle"]

\* ConstantMode.__init__ / GradualMode.__init__: target and duration from the
\* fermentations row, overshoot and cycle from config
ModeInit(cls, id, pin) ==
    LET b == BaseInit(id, pin)
    IN [b EXCEPT !.cls = cls,
                 !.target = IF HasRow(id) /\ Fermentations(id)[2] # None
                            THEN Fermentations(id)[2] ELSE 0,
                 !.duration = IF HasRow(id) /\ Fermentations(id)[3] # None
                              THEN Fermentations(id)[3] ELSE 0,
                 !.overshoot = Overshoot,
                 !.cycle = CycleSecs]

\* threading.Thread.is_alive
IsAlive(t) == t.pc \notin {"none", "created", "stopped", "crashed"}

Cur(t) == t.sensors[1].cur
Prev(t) == t.sensors[1].prev

(* ---------------- heater commands ---------------- *)
\* A frame pairs a thread object with the pin levels while a step executes.
Frame(t, g) == [task |-> t, gpio |-> g]

\* statement sequencing: a raised exception skips what follows
Then(s, F(_)) == IF s.task.pc = "crashed" THEN s ELSE F(s)

\* the pin is driven to the level that opens the low-active relay
HeaterOnWrongLevel(s) ==
    [task |-> [s.task EXCEPT !.heater = HEATER_ON],
     gpio |-> [s.gpio EXCEPT ![s.task.gpio] = HIGH]]

\* FermentationThread._heater_on
HeaterOn(s) ==
    [task |-> [s.task EXCEPT !.heater = HEATER_ON],
     gpio |-> [s.gpio EXCEPT ![s.task.gpio] = LOW]]

\* FermentationThread._heater_off: the pin is written, then the assignment
\* 'self._heater = HEATER_OFF' raises NameError (no global HEATER_OFF), which
\* nothing catches: the thread dies and _heater keeps its value
HeaterOff(s) ==
    [task |-> [s.task EXCEPT !.pc = "crashed"],
     gpio |-> [s.gpio EXCEPT ![s.task.gpio] = HIGH]]

SetState(s, v) == [s EXCEPT !.task.state = v]
Goto(s, pc) == [s EXCEPT !.task.pc = pc]

\* 'if self._sensors[0][2] >= self._target: self._timestamp = ts'
\* (the following 'self._state == self.IDLE' is a comparison, no assignment)
Attained(s) ==
    IF Cur(s.task) >= s.task.target
    THEN [s EXCEPT !.task.timestamp = s.task.ts]
    ELSE s

ToSleep(s) == Goto(s, "sleep")
AttainedThenSleep(s) == ToSleep(Attained(s))

\* the overshoot margin is left out of the comparison
HeatThresholdNoOvershoot(t) == t.target

\* 'self._target - self._overshoot'
HeatThreshold(t) == t.target - t.overshoot

\* the climb phase ('heating up'), up to the first suspension point
Climb(s) ==
    LET t == s.task IN
    IF Cur(t) < HeatThreshold(t)
    THEN AttainedThenSleep(IF t.heater = HEATER_OFF
                           THEN SetState(HeaterOn(s), HEATING)
                           ELSE s)
    ELSE IF Cur(t) < Prev(t)
    THEN IF t.heater = HEATER_OFF
         THEN Goto(HeaterOn(s), "settle20")
         ELSE AttainedThenSleep(s)
    ELSE IF t.heater = HEATER_ON
    THEN Then(HeaterOff(s), AttainedThenSleep)
    ELSE AttainedThenSleep(s)

\* 'keep on going': the re-heat pulse of the maintain phase, up to its wait
KeepGoing(s) ==
    LET t == s.task IN
    IF Cur(t) <= t.target - Band /\ Cur(t) < Prev(t)
    THEN Goto(HeaterOn(s), "pulse10")
    ELSE ToSleep(s)

\* 'if self._duration > 0' and 'm >= self._duration' with
\* m = (ts - self._timestamp) / 60
Expired(t) ==
    t.duration > 0 /\ (t.ts - t.timestamp) \div SecsPerMinute >= t.duration

\* 'duration limit reached': heater off if it is on, then break
EndThread(s) ==
    IF s.task.heater = HEATER_ON
    THEN Then(HeaterOff(s), LAMBDA x : Goto(x, "leave"))
    ELSE Goto(s, "leave")

\* ConstantMode.run, 'check phase'
ConstantRegulate(s) ==
    IF s.task.timestamp = 0
    THEN Climb(s)
    ELSE IF Expired(s.task) THEN EndThread(s) ELSE KeepGoing(s)

\* Python 2 'row[i] >= self._target' with a database NULL
GE(a, b) == a # None /\ a >= b

\* the scan 'while i < 11' of _get_next_level: the column it stops at, or 0
RECURSIVE ScanLevel(_, _, _)
ScanLevel(row, i, target) ==
    IF i >= LevelColLimit THEN 0
    ELSE IF GE(row[i], target) THEN i
    ELSE ScanLevel(row, i + 2, target)

\* GradualMode._get_next_level: target, duration and timestamp are zeroed,
\* then the row is scanned from column 2 against the zeroed target
GetNextLevel(t) ==
    LET z == [t EXCEPT !.target = 0, !.duration = 0, !.timestamp = 0]
        i == IF HasRow(t.id)
             THEN ScanLevel(Fermentations(t.id), FirstLevelCol, z.target)
             ELSE 0
    IN IF i = 0
       THEN [task |-> z, bNext |-> FALSE]
       ELSE LET row == Fermentations(t.id)
            IN [task |-> [z EXCEPT !.target = row[i],
                                   !.duration = IF row[i + 1] # None
                                                THEN row[i + 1] ELSE 0],
                bNext |-> TRUE]

\* GradualMode.run, 'check phase'
GradualRegulate(s) ==
    IF s.task.timestamp = 0
    THEN Climb(s)
    ELSE IF Expired(s.task)
         THEN LET n == GetNextLevel(s.task)
                  s2 == [s EXCEPT !.task = n.task]
              IN IF n.bNext THEN KeepGoing(s2) ELSE EndThread(s2)
         ELSE KeepGoing(s)

(* ---------------- the controller threads ---------------- *)
SetTask(i, t) == tasks' = [tasks EXCEPT ![i] = t]

\* indices visited by 'for i in range(0, len(self._sensors), 4)' (1-based)
Visited == {k \in 1..NumSensors : (k - 1) % SensorStride = 0}

\* 'while not self.event.is_set()'
LoopTop(i) ==
    /\ tasks[i].pc = "top"
    /\ SetTask(i, [tasks[i] EXCEPT !.pc = IF tasks[i].event THEN "leave" ELSE "read"])
    /\ UNCHANGED <<gpio, config, logs, clock, thread, created, mpc>>

\* the sensor list after _read_temperatures with readings r
Shifted(t, r) ==
    [k \in 1..NumSensors |->
        IF k \in Visited
        THEN [sid |-> t.sensors[k].sid, cur |-> r[k], prev |-> t.sensors[k].cur]
        ELSE t.sensors[k]]

\* History of the readings, kept for the worked example of the regulation
\* (18.0, 18.5, 19.6, 19.9, 20.0): field fed counts the cycles of a thread
\* while the primary readings so far are the first ones of Example, and is
\* OffExample from the first cycle that reads something else.
Example == <<180, 185, 196, 199, 200>>
OffExample == Len(Example) + 1
Feed(t, reading) ==
    IF t.cls # "constant" THEN t.fed
    ELSE IF t.fed < Len(Example) /\ Example[t.fed + 1] = reading
    THEN t.fed + 1
    ELSE OffExample

\* _read_temperatures, then 'ts = int(round(secs))'
ReadTemperatures(i) ==
    /\ tasks[i].pc = "read"
    /\ \E r \in [Visited -> Temps] :
          SetTask(i, [tasks[i] EXCEPT !.sensors = Shifted(tasks[i], r),
                                      !.ts = clock, !.pc = "log",
                                      !.fed = Feed(tasks[i], r[1])])
    /\ UNCHANGED <<gpio, config, logs, clock, thread, created, mpc>>

\* sensor.get_temperature() raises on the first sensor: the previous value is
\* already overwritten, nothing catches the exception, the thread dies
ReadFails(i) ==
    /\ tasks[i].pc = "read"
    /\ SetTask(i, [tasks[i] EXCEPT !.sensors[1].prev = tasks[i].sensors[1].cur,
                                    !.pc = "crashed"])
    /\ UNCHANGED <<gpio, config, logs, clock, thread, created, mpc>>

\* the rows one call of _log_temperatures(ts) inserts
LogRows(t) ==
    {[fermentation |-> t.id, sensor |-> t.sensors[k].sid, timestamp |-> t.ts] :
        k \in Visited}

\* _log_temperatures(ts) of the three modes
LogTemperatures(i) ==
    /\ tasks[i].pc = "log"
    /\ logs' = logs (+) SetToBag(LogRows(tasks[i]))
    /\ SetTask(i, [tasks[i] EXCEPT !.pc = IF tasks[i].cls = "idle" THEN "sleep"
                                                                    ELSE "regulate"])
    /\ UNCHANGED <<gpio, config, clock, thread, created, mpc>>

\* mdb.connect / INSERT raises mdb.Error inside the thread: nothing catches it
LogFails(i) ==
    /\ tasks[i].pc = "log"
    /\ SetTask(i, [tasks[i] EXCEPT !.pc = "crashed"])
    /\ UNCHANGED <<gpio, config, logs, clock, thread, created, mpc>>

\* the 'check phase' block of ConstantMode.run / GradualMode.run
Regulate(i) ==
    /\ tasks[i].pc = "regulate"
    /\ LET s == Frame(tasks[i], gpio)
           r == IF tasks[i].cls = "gradual" THEN GradualRegulate(s)
                                            ELSE ConstantRegulate(s)
       IN /\ SetTask(i, r.task)
          /\ gpio' = r.gpio
    /\ UNCHANGED <<config, logs, clock, thread, created, mpc>>

\* the wait sleeps its full period whether or not the event is set
WaitFullPeriod(t, timeout) ==
    /\ clock + timeout <= MaxClock
    /\ clock' = clock + timeout

\* threading.Event.wait(timeout): returns at once when the event is set,
\* after the timeout otherwise
WaitReturns(t, timeout) ==
    /\ IF t.event THEN TRUE ELSE clock + timeout <= MaxClock
    /\ clock' = IF t.event THEN clock ELSE clock + timeout

\* after 'self.event.wait(20)': state = HEATING, then the attained check
SettleDone(i) ==
    /\ tasks[i].pc = "settle20"
    /\ WaitReturns(tasks[i], SettleClimb)
    /\ SetTask(i, AttainedThenSleep(SetState(Frame(tasks[i], gpio), HEATING)).task)
    /\ UNCHANGED <<gpio, config, logs, thread, created, mpc>>

\* after 'self.event.wait(10)': _heater_off(), state = WAITING_FOR_PEAK
PulseDone(i) ==
    /\ tasks[i].pc = "pulse10"
    /\ WaitReturns(tasks[i], SettlePulse)
    /\ LET r == Then(HeaterOff(Frame(tasks[i], gpio)),
                     LAMBDA x : ToSleep(SetState(x, WAITING_FOR_PEAK)))
       IN /\ SetTask(i, r.task)
          /\ gpio' = r.gpio
    /\ UNCHANGED <<config, logs, thread, created, mpc>>

\* 'self.event.wait(self._cycle)' at the end of a cycle
SleepDone(i) ==
    /\ tasks[i].pc = "sleep"
    /\ WaitReturns(tasks[i], tasks[i].cycle)
    /\ SetTask(i, [tasks[i] EXCEPT !.pc = "top"])
    /\ UNCHANGED <<gpio, config, logs, thread, created, mpc>>

\* the DELETE without its WHERE clause
DeleteAllRows(b) == EmptyBag

\* 'DELETE FROM logs WHERE fermentation = 0'
DeleteIdleRows(b) ==
    [row \in {x \in DOMAIN b : x.fermentation # IdleId} |-> b[row]]

\* 'UPDATE config SET value = 0' for items 'mode' and 'log'
ResetConfig(c) == [c EXCEPT !.mode = 0, !.log = 0]

\* the code after the loop: idle mode deletes its rows, the other modes
\* reset the configuration
Leave(i) ==
    /\ tasks[i].pc = "leave"
    /\ IF tasks[i].cls = "idle"
       THEN logs' = DeleteIdleRows(logs) /\ UNCHANGED config
       ELSE config' = ResetConfig(config) /\ UNCHANGED logs
    /\ SetTask(i, [tasks[i] EXCEPT !.pc = "stopped"])
    /\ UNCHANGED <<gpio, clock, thread, created, mpc>>

(* ---------------- the main thread ---------------- *)
\* the pin is left as it is
GpioUntouched(g) == g

\* heater_off()
GpioHeaterOff(g) == [g EXCEPT ![HEATER_GPIO] = HIGH]

\* GPIO.setup(HEATER_GPIO, GPIO.OUT); heater_off()
MainSetup ==
    /\ mpc = "setup"
    /\ gpio' = GpioHeaterOff(gpio)
    /\ mpc' = "poll"
    /\ UNCHANGED <<config, logs, clock, thread, tasks, created>>

\* read_configuration(): with state OFF the mode and log items are replaced
\* by their defaults
ReadConfiguration(c) ==
    IF c.state = FPI_STATE_OFF
    THEN [state |-> c.state, mode |-> FPI_MODE_IDLE, log |-> 0]
    ELSE c

\* the thread object main() constructs for a polled configuration
NewThread(cfg) ==
    CASE cfg.mode = FPI_MODE_IDLE -> IdleInit(IdleId, IdleGpio)
      [] cfg.mode = FPI_MODE_CONSTANT -> ModeInit("constant", cfg.log, HEATER_GPIO)
      [] cfg.mode = FPI_MODE_GRADUAL -> ModeInit("gradual", cfg.log, HEATER_GPIO)

KnownModes == {FPI_MODE_IDLE, FPI_MODE_CONSTANT, FPI_MODE_GRADUAL}

\* what a poll may do when it has read state OFF: the handle it stops, or 0
StopTarget(cfg, h) == IF cfg.state = FPI_STATE_OFF /\ h # 0 THEN h ELSE 0

\* the handle is tested with is_alive() instead of 'is None': a thread that
\* has ended is replaced at once
StartsThreadIfDead(cfg, h) ==
    /\ cfg.state = FPI_STATE_ON
    /\ IF h = 0 THEN TRUE ELSE ~IsAlive(tasks[h])
    /\ cfg.mode \in KnownModes

\* the state value is not looked at before a thread is constructed
StartsThreadAnyState(cfg, h) == h = 0 /\ cfg.mode \in KnownModes

\* whether a poll constructs a thread
StartsThread(cfg, h) ==
    cfg.state = FPI_STATE_ON /\ h = 0 /\ cfg.mode \in KnownModes

\* one pass of 'while True' up to thread.join, thread.start or sleep: the
\* configuration is read; state OFF with a thread sets its event and goes to
\* join it, state ON without a thread constructs one, everything else goes
\* to the sleep at the end of the pass
Poll ==
    /\ mpc = "poll"
    /\ LET cfg == ReadConfiguration(config) IN
       IF StopTarget(cfg, thread) # 0
       THEN /\ tasks' = [tasks EXCEPT ![StopTarget(cfg, thread)].event = TRUE]
            /\ mpc' = "join"
            /\ UNCHANGED <<thread, created>>
       ELSE IF StartsThread(cfg, thread)
       THEN /\ created < MaxTasks
            /\ created' = created + 1
            /\ thread' = created + 1
            /\ tasks' = [tasks EXCEPT ![created + 1] = NewThread(cfg)]
            /\ mpc' = "start"
       ELSE /\ mpc' = "sleep"
            /\ UNCHANGED <<thread, tasks, created>>
    /\ UNCHANGED <<gpio, config, logs, clock>>

\* read_configuration() raises mdb.Error: the handler logs, then evaluates
\* 'if conn:' with conn unbound in main, and the UnboundLocalError ends main
PollFails ==
    /\ mpc = "poll"
    /\ mpc' = "crashed"
    /\ UNCHANGED <<gpio, config, logs, clock, thread, tasks, created>>

\* thread.start()
StartThread ==
    /\ mpc = "start"
    /\ tasks' = [tasks EXCEPT ![thread].pc = "top"]
    /\ mpc' = "sleep"
    /\ UNCHANGED <<gpio, config, logs, clock, thread, created>>

\* the handle is cleared without waiting for the thread to end
JoinedNoWait(h) == TRUE

\* one thread.join(timeout) without the is_alive() loop: it returns when the
\* timeout has passed, whether or not the cancelled thread has ended
JoinedOnce(h) == IF h = 0 THEN TRUE ELSE tasks[h].event

\* 'while thread.is_alive(): thread.join(...)' has ended
Joined(h) == IF h = 0 THEN TRUE ELSE ~IsAlive(tasks[h])

\* 'thread = None': a thread object that has ended is unreferenced and gone;
\* one that is still running stays
Release(h) ==
    IF h = 0 THEN tasks
    ELSE IF IsAlive(tasks[h]) THEN tasks
    ELSE [tasks EXCEPT ![h] = NoTask]

\* the join loop of main() ends; thread = None
JoinThread ==
    /\ mpc = "join"
    /\ Joined(thread)
    /\ tasks' = Release(thread)
    /\ thread' = 0
    /\ mpc' = "sleep"
    /\ UNCHANGED <<gpio, config, logs, clock, created>>

\* sleep(float(config['cycle'])), then the next pass of 'while True'
MainSleep ==
    /\ mpc = "sleep"
    /\ mpc' = "poll"
    /\ UNCHANGED <<gpio, config, logs, clock, thread, tasks, created>>

MainRunning == mpc \in {"setup", "poll", "start", "join", "sleep"}

\* SIGINT / SIGTERM arrives: on_exit sets the event of the thread, if any
OnExit ==
    /\ MainRunning
    /\ tasks' = IF thread # 0 THEN [tasks EXCEPT ![thread].event = TRUE] ELSE tasks
    /\ mpc' = "exit_join"
    /\ UNCHANGED <<gpio, config, logs, clock, thread, created>>

\* on_exit after its join loop: thread = None, heater_off(), sys.exit(0)
OnExitDone ==
    /\ mpc = "exit_join"
    /\ Joined(thread)
    /\ tasks' = Release(thread)
    /\ thread' = 0
    /\ gpio' = GpioHeaterOff(gpio)
    /\ mpc' = "exited"
    /\ UNCHANGED <<config, logs, clock, created>>

(* ---------------- the operator ---------------- *)
\* The web UI is the other writer of table config.  While the process runs
\* the operator changes item state; items mode and log keep the values chosen
\* before the process started until a controller thread resets them.
UiSetState ==
    /\ mpc # "exited"
    /\ \E st \in ConfigStates :
          /\ st # config.state
          /\ config' = [config EXCEPT !.state = st]
    /\ UNCHANGED <<gpio, logs, clock, thread, tasks, created, mpc>>

(* ---------------- specification ---------------- *)
Init ==
    /\ gpio \in [{IdleGpio, HEATER_GPIO} -> {LOW, HIGH}]
    /\ gpio[IdleGpio] = HIGH
    /\ config \in ConfigValues
    /\ logs = EmptyBag
    /\ clock = StartClock
    /\ thread = 0
    /\ tasks = [i \in TaskIds |-> NoTask]
    /\ created = 0
    /\ mpc = "setup"

TaskStep(i) ==
    \/ LoopTop(i)
    \/ ReadTemperatures(i)
    \/ ReadFails(i)
    \/ LogTemperatures(i)
    \/ LogFails(i)
    \/ Regulate(i)
    \/ SettleDone(i)
    \/ PulseDone(i)
    \/ SleepDone(i)
    \/ Leave(i)

Next ==
    \/ MainSetup
    \/ Poll
    \/ PollFails
    \/ StartThread
    \/ JoinThread
    \/ MainSleep
    \/ OnExit
    \/ OnExitDone
    \/ UiSetState
    \/ \E i \in TaskIds : TaskStep(i)

Spec == Init /\ [][Next]_vars

\* The interpreter schedules every started thread: a controller thread that
\* can take a step eventually takes one.
FairSpec == Spec /\ \A i \in TaskIds : WF_vars(TaskStep(i))

\* The signal handler runs in the main thread, which the interpreter keeps
\* scheduling as well: the join loop of on_exit ends once the thread has.
ExitFairSpec == FairSpec /\ WF_vars(OnExitDone)

(* ---------------- properties ---------------- *)
\* a constant- or gradual-mode thread
Heats(t) == t.cls \in {"constant", "gradual"}

\* the regulation of a cycle of thread i ends in this step (normally or by
\* an exception raised inside it)
InRegulation(t) == t.pc \in {"regulate", "settle20", "pulse10"}
RegulationEnds(i) == InRegulation(tasks[i]) /\ ~InRegulation(tasks'[i])

\* the thread is regulating a climb-phase cycle: the cycle found the
\* attained-timestamp unset (the 20-second settle delay belongs to the climb)
InClimb(t) == (t.pc = "regulate" /\ t.timestamp = 0) \/ t.pc = "settle20"

\* C1: when a constant- or gradual-mode thread has stopped (it left its loop
\* after a cancellation, a duration expiry or a level exhaustion and ran to
\* its end), the heater relay is OFF.
C1_RelayOffAfterStop ==
    \A i \in TaskIds :
        (Heats(tasks[i]) /\ tasks[i].pc = "stopped") => ~RelayOn

\* C2: at most one controller thread is running, a running thread is the one
\* the supervisor holds the handle of (the handle is cleared only after the
\* thread has ended), and a thread is created only while no handle is held.
C2_AtMostOneRunning ==
    /\ [](/\ Cardinality({i \in TaskIds : IsAlive(tasks[i])}) <= 1
          /\ \A i \in TaskIds : IsAlive(tasks[i]) => thread = i)
    /\ [][created' # created => thread = 0]_vars

\* a second thread runs after the first one was stopped, joined and released
C2_Witness ==
    /\ created = 2
    /\ IsAlive(tasks[2])
    /\ tasks[1].pc = "none"

\* C3 as stated: in every cycle of a constant- or gradual-mode thread, climb
\* or maintain phase, a primary reading below target - overshoot leaves the
\* relay ON when the regulation of the cycle ends.
C3_HeatsWhenBelow ==
    [][\A i \in TaskIds :
          (/\ Heats(tasks[i])
           /\ RegulationEnds(i)
           /\ Cur(tasks[i]) < HeatThreshold(tasks[i]))
          => gpio'[HEATER_GPIO] = LOW]_vars

\* C3 amended: in every climb-phase cycle (attained-timestamp unset when the
\* regulation starts) a primary reading below target - overshoot leaves the
\* relay ON when the regulation of the cycle ends, and the thread goes on to
\* its per-cycle sleep.
C3_ClimbHeatsWhenBelow ==
    [][\A i \in TaskIds :
          (/\ Heats(tasks[i])
           /\ RegulationEnds(i)
           /\ InClimb(tasks[i])
           /\ Cur(tasks[i]) < HeatThreshold(tasks[i]))
          => /\ gpio'[HEATER_GPIO] = LOW
             /\ tasks'[i].pc = "sleep"]_vars

\* a climb cycle with a reading below target - overshoot has been regulated
C3_Witness ==
    \E i \in TaskIds :
        /\ Heats(tasks[i])
        /\ tasks[i].pc = "sleep"
        /\ tasks[i].timestamp = 0
        /\ Cur(tasks[i]) < HeatThreshold(tasks[i])
        /\ tasks[i].heater = HEATER_ON
        /\ RelayOn

\* C4: the attained-timestamp is set in the first cycle whose primary reading
\* is >= the target (a cycle that starts with the timestamp unset and reads
\* such a value ends with it set); once set it changes only when a
\* gradual-mode level advance clears it, never in constant mode.
C4_AttainedOnce ==
    [][\A i \in TaskIds :
          Heats(tasks[i]) =>
            /\ (/\ RegulationEnds(i)
                /\ InClimb(tasks[i])
                /\ Cur(tasks[i]) >= tasks[i].target)
               => tasks'[i].timestamp # 0
            /\ (tasks[i].timestamp # 0 /\ Heats(tasks'[i]))
               => \/ tasks'[i].timestamp = tasks[i].timestamp
                  \/ /\ tasks[i].cls = "gradual"
                     /\ tasks'[i].timestamp = 0
                     /\ Expired(tasks[i])]_vars

\* C5: a constant-mode thread with duration D > 0 ends in the first cycle
\* whose timestamp ts satisfies ts - attained-timestamp >= 60 * D: the
\* regulation of such a cycle leaves the loop (no further cycle is run) and
\* the heater relay is OFF when it does.
C5_EndsAtDeadline ==
    [][\A i \in TaskIds :
          (/\ tasks[i].cls = "constant"
           /\ tasks[i].pc = "regulate"
           /\ tasks'[i].pc # "regulate"
           /\ tasks[i].duration > 0
           /\ tasks[i].timestamp # 0
           /\ tasks[i].ts - tasks[i].timestamp >= SecsPerMinute * tasks[i].duration)
          => /\ tasks'[i].pc = "leave"
             /\ gpio'[HEATER_GPIO] = HIGH]_vars

\* the two-level table of fermentation 2: (T1, D1), (T2, D2)
TwoLevels == Fermentations(2)

\* C6: in gradual mode with levels (T1, D1), (T2, D2), the cycle that finds
\* D1 minutes elapsed since T1 was attained makes T2 and D2 the working target
\* and duration, clears the attained-timestamp and goes on (the climb toward
\* T2 resumes); the cycle that finds D2 minutes elapsed since T2 was attained
\* ends the thread with the relay OFF.
C6_GradualLevels ==
    [][\A i \in TaskIds :
          (/\ tasks[i].cls = "gradual"
           /\ tasks[i].id = 2
           /\ tasks[i].pc = "regulate"
           /\ tasks'[i].pc # "regulate"
           /\ tasks[i].timestamp # 0
           /\ Expired(tasks[i]))
          => IF tasks[i].target = TwoLevels[2]
             THEN /\ tasks'[i].target = TwoLevels[4]
                  /\ tasks'[i].duration = TwoLevels[5]
                  /\ tasks'[i].timestamp = 0
                  /\ tasks'[i].pc \in {"sleep", "pulse10"}
             ELSE /\ tasks'[i].pc = "leave"
                  /\ gpio'[HEATER_GPIO] = HIGH]_vars

\* C7: no step of a running idle-mode thread changes a pin, and the step
\* with which it stops removes from table logs exactly the rows of
\* fermentation id 0: every other row stays, with its multiplicity.
C7_IdleFrame ==
    [][\A i \in TaskIds :
          (/\ tasks[i].cls = "idle"
           /\ IsAlive(tasks[i])
           /\ tasks'[i].pc # tasks[i].pc)
          => /\ gpio' = gpio
             /\ tasks'[i].pc = "stopped"
                => /\ DOMAIN logs' = {r \in DOMAIN logs : r.fermentation # IdleId}
                   /\ \A r \in DOMAIN logs' : logs'[r] = logs[r]]_vars

\* an idle-mode thread that ran a cycle has stopped, and the rows another
\* fermentation logged before are still in the table
C7_Witness ==
    \E i \in TaskIds :
        /\ tasks[i].cls = "idle"
        /\ tasks[i].pc = "stopped"
        /\ tasks[i].ts # 0
        /\ logs # EmptyBag
        /\ \A r \in DOMAIN logs : r.fermentation # IdleId

\* a constant-mode thread with target 20.0, overshoot 0.5 and no duration
ExampleThread(t) ==
    /\ t.cls = "constant"
    /\ t.target = 200
    /\ t.overshoot = 5
    /\ t.duration = 0

C9_NoReadAfterSignal ==
    [][\A i \in TaskIds :
          (tasks[i].event /\ IsAlive(tasks[i]))
          => ~(tasks[i].pc = "read" /\ tasks'[i].pc # "read")]_vars

\* C9 amended: once the event of a running thread is set, the thread does not pass
\* its loop test again (it starts no further cycle), each of its three
\* timed waits returns without the clock advancing, and the thread
\* eventually has ended.
C9_Cancellation ==
    /\ [][\A i \in TaskIds :
            (tasks[i].event /\ IsAlive(tasks[i]))
            => /\ ~(tasks[i].pc = "top" /\ tasks'[i].pc = "read")
               /\ (/\ tasks[i].pc \in {"sleep", "settle20", "pulse10"}
                   /\ tasks'[i].pc # tasks[i].pc)
                  => clock' = clock]_vars
    /\ \A i \in TaskIds :
          (tasks[i].event /\ IsAlive(tasks[i])) ~> ~IsAlive(tasks[i])

\* the cancellation has arrived while the thread is in its 20-second settle
\* delay
C9_Witness ==
    \E i \in TaskIds :
        /\ tasks[i].event
        /\ tasks[i].pc = "settle20"

\* a controller thread is running
Running == IF thread = 0 THEN FALSE ELSE IsAlive(tasks[thread])

\* C10: a poll that reads state OFF while a thread is running sets its event
\* and goes on to join it, and the join ends only when the thread has ended,
\* clearing the handle; a poll that reads state ON while no thread is running
\* creates one thread of the configured mode and goes on to start it; a poll
\* that reads OFF with no thread running or ON with a thread running starts
\* nothing and stops nothing.
C10_PollCases ==
    [][/\ (mpc = "poll" /\ mpc' \in {"join", "start", "sleep"})
          => CASE config.state = FPI_STATE_OFF /\ Running
                    -> mpc' = "join" /\ tasks'[thread].event
               [] config.state = FPI_STATE_ON /\ ~Running
                  /\ config.mode \in KnownModes
                    -> /\ mpc' = "start"
                       /\ created' = created + 1
                       /\ tasks'[thread'].pc = "created"
                       /\ tasks'[thread'].cls = NewThread(config).cls
               [] config.state = FPI_STATE_OFF /\ ~Running
                    -> created' = created
               [] config.state = FPI_STATE_ON /\ Running
                    -> mpc' = "sleep" /\ UNCHANGED <<thread, tasks, created>>
               [] OTHER -> TRUE
       /\ (mpc = "join" /\ mpc' = "sleep")
          => ~Running /\ thread' = 0
       /\ (mpc = "start" /\ mpc' = "sleep")
          => tasks'[thread].pc = "top"]_vars

\* C11: the signal handler, entered at any point of the supervisor loop,
\* sets the event of the thread the handle names, leaves its join loop only
\* when that thread has ended, then drives the relay pin OFF and exits; the
\* exit is eventually reached, and in the exited process no thread is alive
\* and the relay is OFF.
C11_GracefulExit ==
    /\ [][/\ (MainRunning /\ mpc' = "exit_join" /\ thread # 0)
             => tasks'[thread].event
          /\ (mpc = "exit_join" /\ mpc' = "exited")
             => /\ thread # 0 => ~IsAlive(tasks[thread])
                /\ gpio'[HEATER_GPIO] = HIGH]_vars
    /\ [](mpc = "exited"
          => /\ ~RelayOn
             /\ \A i \in TaskIds : ~IsAlive(tasks[i]))
    /\ (mpc = "exit_join") ~> (mpc = "exited")

\* the handler has joined a heating thread that had stopped with the relay
\* still ON, and is about to force it OFF
C11_Witness ==
    /\ mpc = "exit_join"
    /\ thread # 0
    /\ Heats(tasks[thread])
    /\ tasks[thread].pc = "stopped"
    /\ RelayOn

\* C12: a persistence error raised in a poll never ends the supervisor loop.
C12_SupervisorSurvives == mpc # "crashed"

\* the polled configuration is one the supervisor does not act on
Unrecognized(c) ==
    \/ c.state \notin {FPI_STATE_OFF, FPI_STATE_ON}
    \/ c.state = FPI_STATE_ON /\ c.mode \notin KnownModes

\* C13: a poll that reads a state neither ON nor OFF, or state ON with a
\* mode that is none of idle, constant, gradual, creates no thread, sets no
\* event, leaves the handle and the pins as they are and goes to the sleep
\* that precedes the next poll.
C13_UnknownIgnored ==
    [][(mpc = "poll" /\ mpc' \in {"join", "start", "sleep"} /\ Unrecognized(config))
       => /\ mpc' = "sleep"
          /\ UNCHANGED <<thread, tasks, created, gpio, config>>]_vars

\* a poll has read an unknown state while a thread runs: the thread is
\* still running, uncancelled, during the sleep after that poll
C13_Witness ==
    /\ mpc = "sleep"
    /\ config.state = UnknownState
    /\ Running
    /\ ~tasks[thread].event

\* the columns of a fermentation row that hold the target of a level
LevelCols(row) ==
    {c \in FirstLevelCol..(LevelColLimit - 1) :
        (c - FirstLevelCol) % 2 = 0 /\ row[c] # None}

\* the working target of thread t is the target of a level of its row
OnLevel(t) ==
    IF HasRow(t.id)
    THEN \E c \in LevelCols(Fermentations(t.id)) : Fermentations(t.id)[c] = t.target
    ELSE FALSE

\* the column of the level thread t works on
CurrentLevel(t) ==
    CHOOSE c \in LevelCols(Fermentations(t.id)) : Fermentations(t.id)[c] = t.target

\* C14: in gradual mode a level advance (the cycle that finds the duration of
\* the current level elapsed) selects the entry right after the current one,
\* so no level, the first one in particular, is selected again; when there
\* is no entry after the current one the thread ends instead.
C14_LevelsForward ==
    [][\A i \in TaskIds :
          (/\ tasks[i].cls = "gradual"
           /\ tasks[i].pc = "regulate"
           /\ tasks'[i].pc # "regulate"
           /\ tasks[i].timestamp # 0
           /\ Expired(tasks[i])
           /\ OnLevel(tasks[i]))
          => LET row == Fermentations(tasks[i].id)
                 c == CurrentLevel(tasks[i])
             IN IF c + 2 \in LevelCols(row)
                THEN /\ tasks'[i].target = row[c + 2]
                     /\ tasks'[i].target # row[FirstLevelCol]
                     /\ IsAlive(tasks'[i])
                     /\ tasks'[i].pc # "leave"
                ELSE tasks'[i].pc \in {"leave", "crashed"}]_vars

\* C15: in the climb phase, the regulation of a cycle whose reading is
\* >= target - overshoot and not below the previous reading, with the heater
\* ON, drives the relay OFF, sets the state to WAITING_FOR_PEAK and goes to
\* the per-cycle sleep, from which the next cycle starts.
C15_ClimbSwitchOff ==
    [][\A i \in TaskIds :
          (/\ Heats(tasks[i])
           /\ tasks[i].pc = "regulate"
           /\ tasks'[i].pc # "regulate"
           /\ tasks[i].timestamp = 0
           /\ Cur(tasks[i]) >= HeatThreshold(tasks[i])
           /\ Cur(tasks[i]) >= Prev(tasks[i])
           /\ tasks[i].heater = HEATER_ON)
          => /\ gpio'[HEATER_GPIO] = HIGH
             /\ tasks'[i].state = WAITING_FOR_PEAK
             /\ tasks'[i].pc = "sleep"]_vars

\* the reading has dropped to target - 0.10 or lower and is falling
Dropping(t) == Cur(t) <= t.target - Band /\ Cur(t) < Prev(t)

\* C16: in the maintain phase, the regulation of a cycle that does not end
\* the thread switches the heater ON and enters the 10-second delay exactly
\* when the reading is <= target - 0.10 and below the previous reading, and
\* otherwise leaves pin and heater record alone and goes to the per-cycle
\* sleep; the end of the 10-second delay drives the relay OFF, sets the
\* state to WAITING_FOR_TROUGH and goes to the per-cycle sleep.
C16_MaintainPulse ==
    [][\A i \in TaskIds :
          /\ (/\ Heats(tasks[i])
              /\ tasks[i].pc = "regulate"
              /\ tasks'[i].pc # "regulate"
              /\ tasks[i].timestamp # 0
              /\ ~Expired(tasks[i]))
             => IF Dropping(tasks[i])
                THEN /\ tasks'[i].pc = "pulse10"
                     /\ gpio'[HEATER_GPIO] = LOW
                ELSE /\ tasks'[i].pc = "sleep"
                     /\ gpio' = gpio
                     /\ tasks'[i].heater = tasks[i].heater
          /\ (tasks[i].pc = "pulse10" /\ tasks'[i].pc # "pulse10")
             => /\ gpio'[HEATER_GPIO] = HIGH
                /\ tasks'[i].state = WAITING_FOR_TROUGH
                /\ tasks'[i].pc = "sleep"]_vars

\* C17: the step with which a constant- or gradual-mode thread stops sets
\* the configuration's mode to idle and its state to OFF, and no other step
\* of a thread writes the configuration.
C17_ConfigReset ==
    [][/\ \A i \in TaskIds :
            (Heats(tasks[i]) /\ tasks[i].pc = "leave" /\ tasks'[i].pc = "stopped")
            => /\ config'.mode = FPI_MODE_IDLE
               /\ config'.state = FPI_STATE_OFF
       /\ (config' # config /\ tasks' # tasks)
          => \E i \in TaskIds :
                Heats(tasks[i]) /\ tasks[i].pc = "leave" /\ tasks'[i].pc = "stopped"]_vars

\* the telemetry row of sensor k for the running cycle of thread t
RowOf(t, k) ==
    [fermentation |-> t.id, sensor |-> t.sensors[k].sid, timestamp |-> t.ts]

\* C18: in every cycle the read step gives every enumerated sensor a fresh
\* reading, its former current value becoming the previous one, and the log
\* step that follows (before the regulation) adds exactly one row per sensor,
\* with the thread's fermentation id and the timestamp of the cycle.
C18_EverySensor ==
    [][\A i \in TaskIds :
          /\ (tasks[i].pc = "read" /\ tasks'[i].pc = "log")
             => \A k \in 1..NumSensors :
                   /\ tasks'[i].sensors[k].prev = tasks[i].sensors[k].cur
                   /\ tasks'[i].sensors[k].cur \in Temps
          /\ (tasks[i].pc = "log" /\ tasks'[i].pc \in {"regulate", "sleep"})
             => /\ \A k \in 1..NumSensors :
                      CopiesIn(RowOf(tasks[i], k), logs')
                         = CopiesIn(RowOf(tasks[i], k), logs) + 1
                /\ BagCardinality(logs') = BagCardinality(logs) + NumSensors]_vars

\* C19: a step that changes a pin while a thread is alive is a step of that
\* thread, the one the handle names, and not of the main thread; with no
\* thread alive it is the setup of main, before any thread was created, or
\* the exit of the signal handler, after its join.  So an alive thread whose
\* last command was ON (only _heater_on makes its record ON, and a thread
\* does not survive _heater_off) finds the relay ON.
C19_SingleWriter ==
    /\ [][gpio' # gpio
          => IF \E i \in TaskIds : IsAlive(tasks[i])
             THEN /\ mpc' = mpc
                  /\ \E i \in TaskIds :
                        /\ IsAlive(tasks[i])
                        /\ thread = i
                        /\ tasks'[i] # tasks[i]
             ELSE \/ mpc = "setup" /\ created = 0
                  \/ mpc = "exit_join" /\ mpc' = "exited"]_vars
    /\ [](\A i \in TaskIds :
             (IsAlive(tasks[i]) /\ tasks[i].heater = HEATER_ON) => RelayOn)

\* the signal handler waits in its join loop while the cancelled thread,
\* whose last command was ON, is still alive: the relay is still ON
C19_Witness ==
    /\ mpc = "exit_join"
    /\ thread # 0
    /\ IsAlive(tasks[thread])
    /\ tasks[thread].heater = HEATER_ON
    /\ RelayOn

\* C20: the read step of a cycle never ends the thread: whatever the sensors
\* do, the thread goes on to log and complete the cycle.
C20_ReadErrorContained ==
    [][\A i \in TaskIds :
          (tasks[i].pc = "read" /\ tasks'[i].pc # "read")
          => /\ IsAlive(tasks'[i])
             /\ tasks'[i].pc = "log"]_vars

\* C21: a constant- or gradual-mode thread that an exception has ended while
\* its heater was ON leaves the relay OFF.
C21_RelayOffAfterError ==
    \A i \in TaskIds :
        (/\ Heats(tasks[i])
         /\ tasks[i].pc = "crashed"
         /\ tasks[i].heater = HEATER_ON)
        => ~RelayOn

\* C22: while a constant- or gradual-mode thread with its attained-timestamp
\* set waits in the per-cycle sleep, the relay is OFF.
C22_MaintainSleepOff ==
    \A i \in TaskIds :
        (/\ Heats(tasks[i])
         /\ tasks[i].timestamp # 0
         /\ tasks[i].pc = "sleep")
        => ~RelayOn

\* the handle names a constant- or gradual-mode thread that left its loop
\* without having been cancelled and ran to its end
EndedByItself ==
    IF thread = 0 THEN FALSE
    ELSE /\ Heats(tasks[thread])
         /\ tasks[thread].pc = "stopped"
         /\ ~tasks[thread].event

\* C23: a poll that finds the handle on a thread that ended by itself and
\* reads state ON starts nothing and keeps the handle; the main loop goes to
\* its join only from a poll that read state OFF, the handle is cleared only
\* at the end of a join, and a thread is created only by a poll that reads
\* state ON with the handle cleared.
C23_EndedNotReplaced ==
    [][/\ (mpc = "poll" /\ mpc' # "poll" /\ MainRunning'
           /\ EndedByItself /\ config.state = FPI_STATE_ON)
          => /\ mpc' = "sleep"
             /\ UNCHANGED <<thread, tasks, created>>
       /\ (mpc = "poll" /\ mpc' = "join") => config.state = FPI_STATE_OFF
       /\ (thread # 0 /\ thread' = 0) => mpc \in {"join", "exit_join"}
       /\ created' # created
          => /\ mpc = "poll"
             /\ thread = 0
             /\ config.state = FPI_STATE_ON]_vars

\* a thread has ended by itself, state is still ON and a poll has passed:
\* the supervisor sleeps with the handle still on the ended thread
C23_Witness ==
    /\ EndedByItself
    /\ config.state = FPI_STATE_ON
    /\ mpc = "sleep"
    /\ created = 1

\* C24: a step of a thread that switches the relay OFF leaves the record
\* _heater OFF and the thread alive, and whenever a constant- or gradual-mode
\* thread reaches the per-cycle sleep its record is ON exactly if the relay
\* is ON.
C24_RecordMatchesRelay ==
    [][\A i \in TaskIds :
          (Heats(tasks[i]) /\ IsAlive(tasks[i]) /\ tasks'[i] # tasks[i])
          => /\ (gpio[HEATER_GPIO] = LOW /\ gpio'[HEATER_GPIO] = HIGH)
                => /\ tasks'[i].heater = HEATER_OFF
                   /\ IsAlive(tasks'[i])
             /\ tasks'[i].pc = "sleep"
                => (tasks'[i].heater = HEATER_ON <=> gpio'[HEATER_GPIO] = LOW)]_vars

====
